---- MODULE Spec2Model ----
(***************************************************************************)
(* A model of xsct (src/src/xsct.c): X11 set colour temperature.           *)
(*                                                                         *)
(* One invocation of the program is a run of the state machine: the        *)
(* display is opened, the command line is collected one argument at a      *)
(* time, the environment is read, and main dispatches to usage, the        *)
(* screen-index error, or toggle followed by estimate / absolute / delta.  *)
(*                                                                         *)
(* Numbers.  `long' and `int' values are integers.  A `double' is a        *)
(* fixed-point integer: gamma multipliers, logarithms and exponents carry  *)
(* FP (10^8) units per 1.0, brightness carries BP (10^3) units per 1.0.    *)
(* Products are formed exactly with MulDivQR, so that no intermediate      *)
(* value leaves the 32-bit range of the model checker.                     *)
(***************************************************************************)
EXTENDS Integers, Sequences, FiniteSets, TLC

(***************************************************************************)
(* Program constants (#define lines of xsct.c).                            *)
(***************************************************************************)
MINTEMP == 700
TEMP_NORM == 6500
MIN_DELTA == -1000000
TOGGLE_DELTA == 200
GAMMA_MULT == 65535
\* BRIGHTNESS_DIV 65470.988, in thousandths
BRIGHTNESS_DIV == 65470988
\* the curve coefficients, in FP units
GAMMA_K0GR == -147751309
GAMMA_K1GR == 28590165
GAMMA_K0BR == -438321650
GAMMA_K1BR == 62121588
GAMMA_K0RB == 175390204
GAMMA_K1RB == -11508057
GAMMA_K0GB == 149221605
GAMMA_K1GB == -7513510
\* initial values of the globals temp_day / temp_night
TEMP_DAY_DFL == TEMP_NORM
TEMP_NIGHT_DFL == 4500
EXIT_SUCCESS == 0
EXIT_FAILURE == 1

\* units per 1.0 of a double holding a gamma multiplier, a log or an exponent
FP == 100000000
\* units per 1.0 of a double holding a brightness
BP == 1000

(***************************************************************************)
(* Exact arithmetic on products that do not fit 32 bits.                   *)
(***************************************************************************)
RECURSIVE MulRem(_, _, _)
\* <<q, r>> with r0 * b = q * c + r, 0 <= r < c, for 0 <= r0 < c, b >= 0;
\* b is taken two bits at a time
MulRem(r0, b, c) ==
  IF b = 0 THEN <<0, 0>>
  ELSE LET h == MulRem(r0, b \div 4, c)
           t == 4 * h[2] + (b % 4) * r0
       IN  <<4 * h[1] + (t \div c), t % c>>

\* <<q, r>> with a * b = q * c + r, 0 <= r < c, for a, b >= 0, c > 0
MulDivQR(a, b, c) ==
  LET h == MulRem(a % c, b, c)
  IN  <<(a \div c) * b + h[1], h[2]>>

\* floor(a * b / c)
MulDiv(a, b, c) == MulDivQR(a, b, c)[1]

RECURSIVE Log2Floor(_)
Log2Floor(x) == IF x < 2 THEN 0 ELSE 1 + Log2Floor(x \div 2)

\* ln 2 in FP units
Ln2 == 69314718

RECURSIVE AtanhSeries(_, _, _)
\* 1 + y2/3 + y2^2/5 + ... + y2^8/17 in FP units, by Horner's rule from the
\* last term: acc is the value of the terms after n
AtanhSeries(y2, n, acc) ==
  IF n < 1 THEN acc
  ELSE AtanhSeries(y2, n - 2, (FP \div n) + MulDiv(y2, acc, FP))

\* log(x) of libm for an integer x >= 1, in FP units:
\* x = m * 2^k, ln x = k ln 2 + 2 atanh((m - 1) / (m + 1))
Log(x) ==
  LET k  == Log2Floor(x)
      p  == 2 ^ k
      y  == MulDiv(x - p, FP, x + p)
      y2 == MulDiv(y, y, FP)
  IN  k * Ln2 + 2 * MulDiv(y, AtanhSeries(y2, 17, 0), FP)

RECURSIVE ExpSeries(_, _, _)
\* 1 + r/1 (1 + r/2 (1 + ... (1 + r/16))) in FP units, from the innermost
\* factor: acc is the value of the factors after n
ExpSeries(r, n, acc) ==
  IF n < 1 THEN acc
  ELSE ExpSeries(r, n - 1, FP + (MulDiv(r, acc, FP) \div n))

\* (long)(exp(y) + base + 0.5) for y >= 0 in FP units and an integer base:
\* y = k ln 2 + r, exp(y) = 2^k exp(r)
ExpRound(y, base) ==
  LET k  == y \div Ln2
      r  == y % Ln2
      er == ExpSeries(r, 16, FP)
      qr == MulDivQR(er, 2 ^ (k + 1), 2 * FP)
  IN  base + qr[1] + (IF qr[2] >= FP THEN 1 ELSE 0)

(***************************************************************************)
(* Curve model and ramp codec (the arithmetic of setst and getst).         *)
(***************************************************************************)
MAX(x, y) == IF x > y THEN x ELSE y

\* buff[(x > a) + (x > b)] of { a, x, b }
trimdouble(x, a, b) ==
  <<a, x, b>>[1 + (IF x > a THEN 1 ELSE 0) + (IF x > b THEN 1 ELSE 0)]

\* a variant of UnsignedLess that compares the ints as signed
SignedLess(a, b) == a < b

\* (unsigned)a < (unsigned)b for 32-bit ints: a negative int converts to a
\* value above every non-negative one
UnsignedLess(a, b) ==
  IF (a < 0) = (b < 0) THEN a < b ELSE b < 0

\* the sgamma setst computes from ts.temp (multipliers in FP units)
TempToGamma(temp) ==
  IF temp < TEMP_NORM
  THEN IF temp > MINTEMP
       THEN LET g == Log(temp - MINTEMP)
            IN  [red   |-> FP,
                 green |-> trimdouble(GAMMA_K0GR + MulDiv(GAMMA_K1GR, g, FP), 0, FP),
                 blue  |-> trimdouble(GAMMA_K0BR + MulDiv(GAMMA_K1BR, g, FP), 0, FP)]
       ELSE [red |-> FP, green |-> 0, blue |-> 0]
  ELSE LET g == Log(temp - (TEMP_NORM - MINTEMP))
       IN  [red   |-> trimdouble(GAMMA_K0RB - MulDiv(-GAMMA_K1RB, g, FP), 0, FP),
            green |-> trimdouble(GAMMA_K0GB - MulDiv(-GAMMA_K1GB, g, FP), 0, FP),
            blue  |-> FP]

\* a variant of RampElem that scales by i + 1 instead of i
RampElemNext(b, mult, i, size) ==
  LET g == MulDiv(GAMMA_MULT * (i + 1), b * 10, size)
  IN  ((MulDiv(g, mult, FP) + 5000) \div 10000) % 65536

\* (unsigned short int)(GAMMA_MULT * b * i / size * mult + 0.5):
\* g is kept in 1/10000 units, b in BP units, mult in FP units
RampElem(b, mult, i, size) ==
  LET g == MulDiv(GAMMA_MULT * i, b * 10, size)
  IN  ((MulDiv(g, mult, FP) + 5000) \div 10000) % 65536

\* The ramp XRRSetCrtcGamma installs on a crtc is kept as the triple setst
\* built it from; XRRGetCrtcGamma's element i of a channel is recomputed.
Ramp(size, b, sg) == [size |-> size, b |-> b, sg |-> sg]

RampRed(r, i) == RampElem(r.b, r.sg.red, i, r.size)
RampGreen(r, i) == RampElem(r.b, r.sg.green, i, r.size)
RampBlue(r, i) == RampElem(r.b, r.sg.blue, i, r.size)

(***************************************************************************)
(* Controller aggregator: getscreengamma, getst, setst.                    *)
(* A display is a sequence of screens, a screen the sequence of the ramps  *)
(* of its crtcs; C index c is position c + 1.                              *)
(***************************************************************************)
\* icrtc and ncrtc after `if ((unsigned)icrtc < (unsigned)ncrtc) ncrtc = 1;
\* else icrtc = 0;'
SelectCrtcs(icrtc, ncrtc) ==
  IF UnsignedLess(icrtc, ncrtc)
  THEN [icrtc |-> icrtc, ncrtc |-> 1]
  ELSE [icrtc |-> 0, ncrtc |-> ncrtc]

\* the crtc indices `for (c = icrtc; c < icrtc + ncrtc; c++)' visits, in order
LoopCrtcs(sel) == [k \in 1..sel.ncrtc |-> sel.icrtc + k - 1]

\* xrr_res->crtcs[c] and its ramp (a position outside the array reads as a
\* dark ramp)
CrtcRamp(scr, c) ==
  IF c + 1 \in DOMAIN scr THEN scr[c + 1] ELSE Ramp(1, 0, TempToGamma(0))

RECURSIVE SumPeaks(_, _, _)
\* gammar/gammag/gammab after the loop over the crtcs cs[k..]
SumPeaks(scr, cs, k) ==
  IF k > Len(cs) THEN [red |-> 0, green |-> 0, blue |-> 0]
  ELSE LET r    == CrtcRamp(scr, cs[k])
           gi   == r.size - 1
           rest == SumPeaks(scr, cs, k + 1)
       IN  [red   |-> RampRed(r, gi) + rest.red,
            green |-> RampGreen(r, gi) + rest.green,
            blue  |-> RampBlue(r, gi) + rest.blue]

\* what getscreengamma returns (ncrtc) and stores (sg), and the crtcs it read
getscreengamma(scr, icrtc) ==
  LET sel == SelectCrtcs(icrtc, Len(scr))
      cs  == LoopCrtcs(sel)
  IN  [ncrtc |-> sel.ncrtc, sg |-> SumPeaks(scr, cs, 1), crtcs |-> cs]

\* the tempstate getst estimates from summed peaks sg over ncrtc crtcs
Estimate(sg, ncrtc) ==
  LET brightness == MAX(sg.blue, MAX(sg.red, sg.green))
  IN  IF brightness > 0 /\ ncrtc > 0
      THEN LET red    == MulDiv(sg.red, FP, brightness)
               green  == MulDiv(sg.green, FP, brightness)
               blue   == MulDiv(sg.blue, FP, brightness)
               b      == MulDiv(brightness, BP * 1000, ncrtc * BRIGHTNESS_DIV)
               gdelta == blue - red
               t == IF gdelta < 0
                    THEN IF blue > 0
                         THEN ExpRound(MulDiv(green + FP + gdelta
                                                - (GAMMA_K0GR + GAMMA_K0BR),
                                              FP, GAMMA_K1GR + GAMMA_K1BR),
                                       MINTEMP)
                         ELSE IF green > 0
                              THEN ExpRound(MulDiv(green - GAMMA_K0GR, FP,
                                                   GAMMA_K1GR), MINTEMP)
                              ELSE MINTEMP
                    ELSE ExpRound(MulDiv((GAMMA_K0GB + GAMMA_K0RB)
                                           - (green + FP - gdelta),
                                         FP, -(GAMMA_K1GB + GAMMA_K1RB)),
                                  TEMP_NORM - MINTEMP)
           IN  [temp |-> t, brightness |-> trimdouble(b, 0, BP)]
      ELSE [temp |-> 0, brightness |-> trimdouble(brightness * BP, 0, BP)]

getst(d, iscreen, icrtc) ==
  LET g == getscreengamma(d[iscreen + 1], icrtc)
  IN  Estimate(g.sg, g.ncrtc)

\* the crtcs setst installs a ramp on, in order
setcrtcs(d, iscreen, icrtc) ==
  LoopCrtcs(SelectCrtcs(icrtc, Len(d[iscreen + 1])))

\* the display after setst(dpy, iscreen, icrtc, ts)
setst(d, iscreen, icrtc, tsv) ==
  LET scr == d[iscreen + 1]
      b   == trimdouble(tsv.brightness, 0, BP)
      sg  == TempToGamma(tsv.temp)
      cs  == setcrtcs(d, iscreen, icrtc)
      touched == {cs[k] + 1 : k \in 1..Len(cs)}
  IN  [d EXCEPT ![iscreen + 1] =
         [c \in DOMAIN scr |->
            IF c \in touched THEN Ramp(scr[c].size, b, sg) ELSE scr[c]]]

(***************************************************************************)
(* Policy layer: bounds.                                                   *)
(***************************************************************************)
boundtemp(temp, dfl) ==
  IF temp <= 0 THEN (IF dfl < 0 THEN TEMP_NORM ELSE dfl)
  ELSE IF temp < MINTEMP THEN (IF dfl < 0 THEN MINTEMP ELSE dfl)
  ELSE temp

boundbrightness(brightness) ==
  IF brightness < 0 THEN 0
  ELSE IF brightness > BP THEN BP
  ELSE brightness

\* boundts calls boundtemp and boundbrightness and drops what they return:
\* *ts is left as it was
boundts(tsv) == tsv

(***************************************************************************)
(* Strings are sequences of characters; atoi, atof and strtol of libc.     *)
(***************************************************************************)
IsDigit(c) == c \in {"0", "1", "2", "3", "4", "5", "6", "7", "8", "9"}

DigitVal(c) ==
  CASE c = "0" -> 0 [] c = "1" -> 1 [] c = "2" -> 2 [] c = "3" -> 3
    [] c = "4" -> 4 [] c = "5" -> 5 [] c = "6" -> 6 [] c = "7" -> 7
    [] c = "8" -> 8 [] c = "9" -> 9

RECURSIVE ScanDigits(_, _, _)
\* <<value, end>>: the decimal digits of str from position k on, after acc
ScanDigits(str, k, acc) ==
  IF k <= Len(str) /\ IsDigit(str[k])
  THEN ScanDigits(str, k + 1, 10 * acc + DigitVal(str[k]))
  ELSE <<acc, k>>

\* strtol(p, &endptr, 10): the value and whether endptr moved off p
strtol(str) ==
  LET signed == Len(str) >= 1 /\ str[1] \in {"-", "+"}
      from   == IF signed THEN 2 ELSE 1
      d      == ScanDigits(str, from, 0)
  IN  [x |-> IF signed /\ str[1] = "-" THEN -d[1] ELSE d[1],
       converted |-> d[2] > from]

atoi(str) == strtol(str).x

\* atof, in BP units: sign, digits, and up to three digits after a point
atof(str) ==
  LET signed == Len(str) >= 1 /\ str[1] \in {"-", "+"}
      from   == IF signed THEN 2 ELSE 1
      d      == ScanDigits(str, from, 0)
      point  == d[2] <= Len(str) /\ str[d[2]] = "."
      fr     == IF point
                THEN ScanDigits(SubSeq(str, 1, IF Len(str) > d[2] + 3
                                               THEN d[2] + 3 ELSE Len(str)),
                                d[2] + 1, 0)
                ELSE <<0, d[2]>>
      nfr    == fr[2] - d[2] - 1
      frac   == IF ~point \/ nfr <= 0 THEN 0
                ELSE fr[1] * (CASE nfr = 1 -> 100 [] nfr = 2 -> 10 [] OTHER -> 1)
      mag    == d[1] * BP + frac
  IN  IF signed /\ str[1] = "-" THEN -mag ELSE mag

(***************************************************************************)
(* Inputs of one invocation.                                               *)
(***************************************************************************)
\* longest command line, in words after argv[0]
MaxArgs == 3
\* most screens of a display
MaxScreens == 2

OptH == <<"-", "h">>
OptHelp == <<"-", "-", "h", "e", "l", "p">>
OptV == <<"-", "v">>
OptVerbose == <<"-", "-", "v", "e", "r", "b", "o", "s", "e">>
OptD == <<"-", "d">>
OptDelta == <<"-", "-", "d", "e", "l", "t", "a">>
OptT == <<"-", "t">>
OptToggle == <<"-", "-", "t", "o", "g", "g", "l", "e">>
OptS == <<"-", "s">>
OptScreen == <<"-", "-", "s", "c", "r", "e", "e", "n">>
OptC == <<"-", "c">>
OptCrtc == <<"-", "-", "c", "r", "t", "c">>

\* the words a command line is made of
Words ==
  {OptH, OptV, OptD, OptT, OptS, OptC,
   <<"0">>, <<"1">>, <<"-", "1">>, <<"5", "0", "0", "0">>, <<"x">>}

\* what getenv returns: NULL or a string
NULL == [null |-> TRUE, str |-> <<>>]
EnvString(str) == [null |-> FALSE, str |-> str]
EnvValues == {NULL, EnvString(<<"9", "0", "0">>), EnvString(<<"1">>), EnvString(<<"x">>)}

\* ramps an earlier run left on a crtc
RampDay == Ramp(256, BP, TempToGamma(TEMP_DAY_DFL))
RampNight == Ramp(256, BP, TempToGamma(TEMP_NIGHT_DFL))
RampDim == Ramp(1024, BP \div 2, TempToGamma(MINTEMP))

\* the crtcs of a screen
ScreenLayouts == {<<>>, <<RampDay>>, <<RampNight, RampDim>>}

\* the displays XOpenDisplay may connect to
Displays == UNION {[1..n -> ScreenLayouts] : n \in 1..MaxScreens}

VARIABLES
  pc,          \* position in main
  dpy,         \* the display: the ramps of every crtc of every screen
  argn,        \* argv words consumed so far by collectargs (its i - 1)
  flags,       \* subset of {has_h, has_d, has_t}
  ts,          \* main's tempstate
  crtc_arg, screen_arg, fail, temp_day, temp_night,   \* the globals
  shown,       \* usage() has printed the usage text
  i,           \* the screen loop variable of the running function
  lastscreen,  \* `last' of the running function
  rd,          \* the tempstate local to the running function: ts of
               \* toggledaynight and regularsct, dts of deltasct
  calls,       \* the getst / setst calls made so far, in order
  ramp,        \* the arrays the loop of setst is filling for one crtc
  status       \* the exit status, -1 while running

vars == <<pc, dpy, argn, flags, ts, crtc_arg, screen_arg, fail,
          temp_day, temp_night, shown, i, lastscreen, rd, calls, ramp, status>>

has_h == "has_h"
has_d == "has_d"
has_t == "has_t"

\* XScreenCount(dpy)
nscreen == Len(dpy)

\* ts.brightness == MIN_DELTA, the brightness being in BP units
BrightnessUnset(tsv) == tsv.brightness = MIN_DELTA * BP

NoTs == [temp |-> 0, brightness |-> 0]

\* size, b, sg and the elements written so far; Spec takes the loop in one
\* step (Ramp), SpecEncode runs it turn by turn
NoRamp == [size |-> 0, b |-> 0, sg |-> TempToGamma(0), elems |-> <<>>]

Init ==
  /\ pc = "opendisplay"
  /\ dpy = <<>>
  /\ argn = 0
  /\ flags = {}
  /\ ts = [temp |-> MIN_DELTA, brightness |-> MIN_DELTA * BP]
  /\ crtc_arg = -1
  /\ screen_arg = -1
  /\ fail = 0
  /\ temp_day = TEMP_DAY_DFL
  /\ temp_night = TEMP_NIGHT_DFL
  /\ shown = FALSE
  /\ i = 0
  /\ lastscreen = 0
  /\ rd = NoTs
  /\ calls = <<>>
  /\ ramp = NoRamp
  /\ status = -1

(***************************************************************************)
(* opendisplay                                                             *)
(***************************************************************************)
OpenDisplay ==
  /\ pc = "opendisplay"
  /\ \E d \in Displays : dpy' = d
  /\ pc' = "collectargs"
  /\ UNCHANGED <<ramp, argn, flags, ts, crtc_arg, screen_arg, fail,
                 temp_day, temp_night, shown, i, lastscreen, rd, calls, status>>

\* XOpenDisplay returned NULL: logerror and exit(EXIT_FAILURE)
OpenDisplayFailed ==
  /\ pc = "opendisplay"
  /\ fail' = 1
  /\ status' = EXIT_FAILURE
  /\ pc' = "done"
  /\ UNCHANGED <<ramp, dpy, argn, flags, ts, crtc_arg, screen_arg,
                 temp_day, temp_night, shown, i, lastscreen, rd, calls>>

(***************************************************************************)
(* collectargs: one action per turn of its loop over argv.  The word read  *)
(* in a turn is any word of Words; the command line ends where ArgsEnd or  *)
(* a break leaves the loop.  -v only sets verbose, which selects what is   *)
(* logged and is not kept.                                                 *)
(***************************************************************************)
IsHelp(w) == w = OptH \/ w = OptHelp
IsVerbose(w) == w = OptV \/ w = OptVerbose
IsDelta(w) == w = OptD \/ w = OptDelta
IsToggle(w) == w = OptT \/ w = OptToggle
IsCrtc(w) == w = OptC \/ w = OptCrtc
IsIndex(w) == w = OptS \/ w = OptScreen \/ IsCrtc(w)
IsOption(w) == IsHelp(w) \/ IsVerbose(w) \/ IsDelta(w) \/ IsToggle(w) \/ IsIndex(w)

ArgsUnchanged == UNCHANGED <<dpy, temp_day, temp_night, shown, i, lastscreen,
                             rd, calls, ramp, status>>

\* -h: flags |= has_h; break
ArgHelp ==
  /\ pc = "collectargs" /\ argn < MaxArgs
  /\ \E w \in Words : IsHelp(w)
  /\ flags' = flags \cup {has_h}
  /\ argn' = 0
  /\ pc' = "checkenvironment"
  /\ UNCHANGED <<ts, crtc_arg, screen_arg, fail>>
  /\ ArgsUnchanged

\* -v, -d, -t
ArgFlag ==
  /\ pc = "collectargs" /\ argn < MaxArgs
  /\ \E w \in Words :
       /\ IsVerbose(w) \/ IsDelta(w) \/ IsToggle(w)
       /\ flags' = IF IsDelta(w) THEN flags \cup {has_d}
                   ELSE IF IsToggle(w) THEN flags \cup {has_t}
                   ELSE flags
  /\ argn' = argn + 1
  /\ UNCHANGED <<pc, ts, crtc_arg, screen_arg, fail>>
  /\ ArgsUnchanged

\* -s N, -c N: collectindex finds the next word and takes its atoi
ArgIndex ==
  /\ pc = "collectargs" /\ argn + 1 < MaxArgs
  /\ \E w \in Words, n \in Words :
       /\ IsIndex(w)
       /\ crtc_arg' = IF IsCrtc(w) THEN atoi(n) ELSE crtc_arg
       /\ screen_arg' = IF IsCrtc(w) THEN screen_arg ELSE atoi(n)
  /\ argn' = argn + 2
  /\ UNCHANGED <<pc, flags, ts, fail>>
  /\ ArgsUnchanged

\* -s, -c as the last word: logerror, flags |= has_h; break
ArgIndexMissing ==
  /\ pc = "collectargs" /\ argn < MaxArgs
  /\ \E w \in Words : IsIndex(w)
  /\ fail' = 1
  /\ flags' = flags \cup {has_h}
  /\ argn' = 0
  /\ pc' = "checkenvironment"
  /\ UNCHANGED <<ts, crtc_arg, screen_arg>>
  /\ ArgsUnchanged

\* any other word: the temperature, then the brightness, then an error
ArgValue ==
  /\ pc = "collectargs" /\ argn < MaxArgs
  /\ \E w \in Words :
       /\ ~IsOption(w)
       /\ IF ts.temp = MIN_DELTA
          THEN /\ ts' = [ts EXCEPT !.temp = atoi(w)]
               /\ UNCHANGED <<flags, fail>>
          ELSE IF BrightnessUnset(ts)
          THEN /\ ts' = [ts EXCEPT !.brightness = atof(w)]
               /\ UNCHANGED <<flags, fail>>
          ELSE /\ fail' = 1
               /\ flags' = flags \cup {has_h}
               /\ UNCHANGED ts
  /\ argn' = argn + 1
  /\ UNCHANGED <<pc, crtc_arg, screen_arg>>
  /\ ArgsUnchanged

\* i == argc: the loop ends
ArgsEnd ==
  /\ pc = "collectargs"
  /\ argn' = 0
  /\ pc' = "checkenvironment"
  /\ UNCHANGED <<flags, ts, crtc_arg, screen_arg, fail>>
  /\ ArgsUnchanged

(***************************************************************************)
(* checkenvironment                                                        *)
(***************************************************************************)
envtotemp(p, dfl) ==
  LET r == strtol(p)
      x == IF r.converted THEN r.x ELSE dfl
  IN  boundtemp(x, dfl)

CheckEnvironment ==
  /\ pc = "checkenvironment"
  /\ \E day \in EnvValues, night \in EnvValues :
       /\ temp_day' = IF day.null THEN temp_day ELSE envtotemp(day.str, temp_day)
       /\ temp_night' = IF night.null THEN temp_night
                        ELSE envtotemp(night.str, temp_night)
  /\ pc' = "main"
  /\ UNCHANGED <<ramp, dpy, argn, flags, ts, crtc_arg, screen_arg, fail,
                 shown, i, lastscreen, rd, calls, status>>

(***************************************************************************)
(* main after checkenvironment                                             *)
(***************************************************************************)
\* the record of a getst call: the crtcs read, the count returned, the estimate
GetCall(by, screen) ==
  LET g == getscreengamma(dpy[screen + 1], crtc_arg)
  IN  [op |-> "get", by |-> by, screen |-> screen, crtcs |-> g.crtcs,
       n |-> g.ncrtc, ts |-> Estimate(g.sg, g.ncrtc)]

\* the record of a setst call: the crtcs written and the tempstate handed in
SetCall(by, screen, tsv) ==
  LET cs == setcrtcs(dpy, screen, crtc_arg)
  IN  [op |-> "set", by |-> by, screen |-> screen, crtcs |-> cs,
       n |-> Len(cs), ts |-> tsv]

\* if (flags & has_h) usage();
Usage ==
  /\ pc = "main"
  /\ has_h \in flags
  /\ shown' = TRUE
  /\ pc' = "close"
  /\ UNCHANGED <<ramp, dpy, argn, flags, ts, crtc_arg, screen_arg, fail,
                 temp_day, temp_night, i, lastscreen, rd, calls, status>>

\* else if (!fail && screen_arg >= nscreen) errorargscreen(nscreen);
ErrorArgScreen ==
  /\ pc = "main"
  /\ has_h \notin flags
  /\ fail = 0 /\ screen_arg >= nscreen
  /\ fail' = 1
  /\ pc' = "close"
  /\ UNCHANGED <<ramp, dpy, argn, flags, ts, crtc_arg, screen_arg,
                 temp_day, temp_night, shown, i, lastscreen, rd, calls, status>>

\* a variant of SelectedRange that ignores -s
AllRange == [first |-> 0, last |-> nscreen - 1]

\* firstscreen and lastscreen of main: the screen given by -s, else all
SelectedRange ==
  [first |-> IF screen_arg >= 0 THEN screen_arg ELSE 0,
   last  |-> IF screen_arg >= 0 THEN screen_arg ELSE nscreen - 1]

\* a variant of ToggleRange that follows -s
ToggleSelected ==
  [first |-> IF screen_arg >= 0 THEN screen_arg ELSE 0,
   last  |-> IF screen_arg >= 0 THEN screen_arg ELSE nscreen - 1]

\* the screens the loop of toggledaynight runs over
ToggleRange == [first |-> 0, last |-> nscreen - 1]

\* else: toggledaynight(dpy, nscreen) when has_t is set
MainElse ==
  /\ pc = "main"
  /\ has_h \notin flags
  /\ ~(fail = 0 /\ screen_arg >= nscreen)
  /\ i' = ToggleRange.first
  /\ pc' = IF has_t \in flags THEN "toggledaynight" ELSE "select"
  /\ UNCHANGED <<ramp, dpy, argn, flags, ts, crtc_arg, screen_arg, fail,
                 temp_day, temp_night, shown, lastscreen, rd, calls, status>>

\* toggledaynight: the loop test and `ts = getst(dpy, i, crtc_arg)'
ToggleGet ==
  /\ pc = "toggledaynight"
  /\ IF i <= ToggleRange.last
     THEN /\ rd' = getst(dpy, i, crtc_arg)
          /\ calls' = Append(calls, GetCall("toggle", i))
          /\ pc' = "toggledaynight_set"
     ELSE /\ pc' = "select"
          /\ UNCHANGED <<rd, calls>>
  /\ UNCHANGED <<ramp, dpy, argn, flags, ts, crtc_arg, screen_arg, fail,
                 temp_day, temp_night, shown, i, lastscreen, status>>

\* a variant of toggled whose test is >= instead of >
toggledAtOrAbove(tsv) ==
  [tsv EXCEPT !.temp = IF tsv.temp >= temp_day - TOGGLE_DELTA
                       THEN temp_night ELSE temp_day]

\* a variant of toggled with the two presets exchanged
toggledSwapped(tsv) ==
  [tsv EXCEPT !.temp = IF tsv.temp > temp_day - TOGGLE_DELTA
                       THEN temp_day ELSE temp_night]

\* the tempstate toggledaynight hands to setst after reading tsv
toggled(tsv) ==
  [tsv EXCEPT !.temp = IF tsv.temp > temp_day - TOGGLE_DELTA
                       THEN temp_night ELSE temp_day]

\* toggledaynight: the choice of the preset and `setst(dpy, i, crtc_arg, ts)'
ToggleSet ==
  /\ pc = "toggledaynight_set"
  /\ dpy' = setst(dpy, i, crtc_arg, toggled(rd))
  /\ calls' = Append(calls, SetCall("toggle", i, toggled(rd)))
  /\ i' = i + 1
  /\ pc' = "toggledaynight"
  /\ UNCHANGED <<ramp, argn, flags, ts, crtc_arg, screen_arg, fail,
                 temp_day, temp_night, shown, lastscreen, rd, status>>

\* the default brightness, the screen range, and the choice of the operation
Select ==
  /\ pc = "select"
  /\ ts' = [ts EXCEPT !.brightness =
              IF BrightnessUnset(ts) /\ has_d \notin flags THEN BP ELSE @]
  /\ i' = SelectedRange.first
  /\ lastscreen' = SelectedRange.last
  /\ pc' = IF ts.temp = MIN_DELTA /\ has_d \notin flags
           THEN "printestimate"
           ELSE IF has_d \notin flags THEN "regularsct" ELSE "deltasct"
  /\ UNCHANGED <<ramp, dpy, argn, flags, crtc_arg, screen_arg, fail,
                 temp_day, temp_night, shown, rd, calls, status>>

\* one turn of printestimate's loop, or its end
PrintEstimate ==
  /\ pc = "printestimate"
  /\ IF i <= lastscreen
     THEN /\ calls' = Append(calls, GetCall("estimate", i))
          /\ i' = i + 1
          /\ UNCHANGED pc
     ELSE /\ pc' = "close"
          /\ UNCHANGED <<calls, i>>
  /\ UNCHANGED <<ramp, dpy, argn, flags, ts, crtc_arg, screen_arg, fail,
                 temp_day, temp_night, shown, lastscreen, rd, status>>

\* regularsct before its loop: the tempstate it will hand to setst
regularts(tsv) ==
  IF tsv.temp = 0 THEN [tsv EXCEPT !.temp = temp_day] ELSE boundts(tsv)

RegularSctEnter ==
  /\ pc = "regularsct"
  /\ rd' = regularts(ts)
  /\ pc' = "regularsct_loop"
  /\ UNCHANGED <<ramp, dpy, argn, flags, ts, crtc_arg, screen_arg, fail,
                 temp_day, temp_night, shown, i, lastscreen, calls, status>>

\* one turn of regularsct's loop, or its end
RegularSct ==
  /\ pc = "regularsct_loop"
  /\ IF i <= lastscreen
     THEN /\ dpy' = setst(dpy, i, crtc_arg, rd)
          /\ calls' = Append(calls, SetCall("regular", i, rd))
          /\ i' = i + 1
          /\ UNCHANGED pc
     ELSE /\ pc' = "close"
          /\ UNCHANGED <<dpy, calls, i>>
  /\ UNCHANGED <<ramp, argn, flags, ts, crtc_arg, screen_arg, fail,
                 temp_day, temp_night, shown, lastscreen, rd, status>>

\* a variant of DeltaUnset that tests the temperature delta only
DeltaTempUnset(tsv) == tsv.temp = MIN_DELTA

\* ts.temp == MIN_DELTA || ts.brightness == MIN_DELTA
DeltaUnset(tsv) == tsv.temp = MIN_DELTA \/ BrightnessUnset(tsv)

\* deltasct with a delta left unset: logerror
DeltaSctError ==
  /\ pc = "deltasct"
  /\ DeltaUnset(ts)
  /\ fail' = 1
  /\ pc' = "close"
  /\ UNCHANGED <<ramp, dpy, argn, flags, ts, crtc_arg, screen_arg,
                 temp_day, temp_night, shown, i, lastscreen, rd, calls, status>>

\* deltasct: the loop test and `dts = getst(dpy, i, crtc_arg)'
DeltaGet ==
  /\ pc = "deltasct"
  /\ ~DeltaUnset(ts)
  /\ IF i <= lastscreen
     THEN /\ rd' = getst(dpy, i, crtc_arg)
          /\ calls' = Append(calls, GetCall("delta", i))
          /\ pc' = "deltasct_set"
     ELSE /\ pc' = "close"
          /\ UNCHANGED <<rd, calls>>
  /\ UNCHANGED <<ramp, dpy, argn, flags, ts, crtc_arg, screen_arg, fail,
                 temp_day, temp_night, shown, i, lastscreen, status>>

\* the tempstate deltasct hands to setst after reading dts
shifted(dts, delta) ==
  boundts([temp |-> dts.temp + delta.temp,
           brightness |-> dts.brightness + delta.brightness])

\* deltasct: the sum, boundts and `setst(dpy, i, crtc_arg, dts)'
DeltaSet ==
  /\ pc = "deltasct_set"
  /\ dpy' = setst(dpy, i, crtc_arg, shifted(rd, ts))
  /\ calls' = Append(calls, SetCall("delta", i, shifted(rd, ts)))
  /\ i' = i + 1
  /\ pc' = "deltasct"
  /\ UNCHANGED <<ramp, argn, flags, ts, crtc_arg, screen_arg, fail,
                 temp_day, temp_night, shown, lastscreen, rd, status>>

\* XCloseDisplay(dpy); return (fail) ? EXIT_FAILURE : EXIT_SUCCESS;
CloseDisplay ==
  /\ pc = "close"
  /\ status' = IF fail # 0 THEN EXIT_FAILURE ELSE EXIT_SUCCESS
  /\ pc' = "done"
  /\ UNCHANGED <<ramp, dpy, argn, flags, ts, crtc_arg, screen_arg, fail,
                 temp_day, temp_night, shown, i, lastscreen, rd, calls>>

Next ==
  \/ OpenDisplay
  \/ OpenDisplayFailed
  \/ ArgHelp
  \/ ArgFlag
  \/ ArgIndex
  \/ ArgIndexMissing
  \/ ArgValue
  \/ ArgsEnd
  \/ CheckEnvironment
  \/ Usage
  \/ ErrorArgScreen
  \/ MainElse
  \/ ToggleGet
  \/ ToggleSet
  \/ Select
  \/ PrintEstimate
  \/ RegularSctEnter
  \/ RegularSct
  \/ DeltaSctError
  \/ DeltaGet
  \/ DeltaSet
  \/ CloseDisplay

Spec == Init /\ [][Next]_vars
(***************************************************************************)
(* The loop of setst over the elements of one crtc's ramp (lines 303-309), *)
(* run on its own: size, b and sg are drawn from the sets below and every  *)
(* turn stores one element of each channel.                                *)
(***************************************************************************)
GammaOnes == [red |-> FP, green |-> FP, blue |-> FP]
EncodeSizes == {1, 2, 3, 256}
EncodeBrightness == {0, BP \div 2, BP}
EncodeGammas == {GammaOnes, TempToGamma(MINTEMP), TempToGamma(TEMP_NIGHT_DFL)}

InitEncode ==
  /\ pc = "setst"
  /\ dpy = <<>>
  /\ argn = 0
  /\ flags = {}
  /\ ts = [temp |-> MIN_DELTA, brightness |-> MIN_DELTA * BP]
  /\ crtc_arg = -1
  /\ screen_arg = -1
  /\ fail = 0
  /\ temp_day = TEMP_DAY_DFL
  /\ temp_night = TEMP_NIGHT_DFL
  /\ shown = FALSE
  /\ i = 0
  /\ lastscreen = 0
  /\ rd = NoTs
  /\ calls = <<>>
  /\ \E size \in EncodeSizes, b \in EncodeBrightness, sg \in EncodeGammas :
       ramp = [size |-> size, b |-> b, sg |-> sg, elems |-> <<>>]
  /\ status = -1

EncodeUnchanged == UNCHANGED <<dpy, argn, flags, ts, crtc_arg, screen_arg, fail,
                               temp_day, temp_night, shown, lastscreen, rd,
                               calls, status>>

\* one turn of `for (i = 0; i < size; i++)'
EncodeElem ==
  /\ pc = "setst"
  /\ i < ramp.size
  /\ ramp' = [ramp EXCEPT !.elems = Append(@,
                [red   |-> RampElem(ramp.b, ramp.sg.red, i, ramp.size),
                 green |-> RampElem(ramp.b, ramp.sg.green, i, ramp.size),
                 blue  |-> RampElem(ramp.b, ramp.sg.blue, i, ramp.size)])]
  /\ i' = i + 1
  /\ UNCHANGED pc
  /\ EncodeUnchanged

\* the loop ends: XRRSetCrtcGamma
EncodeEnd ==
  /\ pc = "setst"
  /\ i >= ramp.size
  /\ pc' = "setgamma"
  /\ UNCHANGED <<i, ramp>>
  /\ EncodeUnchanged

NextEncode == EncodeElem \/ EncodeEnd

SpecEncode == InitEncode /\ [][NextEncode]_vars

(***************************************************************************)
(* Properties.  calls[k] is the k-th getst / setst call of the run.        *)
(***************************************************************************)
SetCalls(by) == {k \in DOMAIN calls : calls[k].op = "set" /\ calls[k].by = by}
GetCalls(by) == {k \in DOMAIN calls : calls[k].op = "get" /\ calls[k].by = by}
AllSetCalls == {k \in DOMAIN calls : calls[k].op = "set"}

\* the temperature the specification of absolute mode asks for
BoundChecked(temp) ==
  IF temp <= 0 THEN TEMP_NORM ELSE IF temp < MINTEMP THEN MINTEMP ELSE temp

\* C1: in absolute mode every write carries the bound-checked temperature, so
\* no write of regularsct carries a temperature below MINTEMP.
C1_AbsoluteWriteBounded ==
  \A k \in SetCalls("regular") :
    /\ calls[k].ts.temp =
         (IF ts.temp = 0 THEN temp_day ELSE BoundChecked(ts.temp))
    /\ calls[k].ts.temp >= MINTEMP

\* C1: what the code does: an absolute write below MINTEMP is reached.
C1_WriteBelowMin ==
  \E k \in SetCalls("regular") : calls[k].ts.temp < MINTEMP

\* C2: in delta mode the state written to a screen is the bound-checked sum
\* of the state just read from it and the deltas: the temperature is never
\* below MINTEMP and the brightness is within [0, 1].
C2_DeltaWriteBounded ==
  \A k \in SetCalls("delta") :
    /\ calls[k].ts.temp = BoundChecked(calls[k - 1].ts.temp + ts.temp)
    /\ calls[k].ts.brightness =
         boundbrightness(calls[k - 1].ts.brightness + ts.brightness)
    /\ calls[k].ts.temp >= MINTEMP
    /\ calls[k].ts.brightness >= 0 /\ calls[k].ts.brightness <= BP

\* C2: what the code does: the sum itself is written, here out of bounds.
C2_WriteOutOfBounds ==
  \E k \in SetCalls("delta") :
    /\ calls[k].ts.temp = calls[k - 1].ts.temp + ts.temp
    /\ calls[k].ts.brightness = calls[k - 1].ts.brightness + ts.brightness
    /\ calls[k].ts.temp < MINTEMP \/ calls[k].ts.brightness > BP

\* the delta flag with the temperature delta given and the brightness delta
\* left unset
DeltaTempOnly ==
  has_d \in flags /\ ts.temp # MIN_DELTA /\ BrightnessUnset(ts)

\* C3 (as stated): delta mode with only the temperature delta ends with the
\* failure flag set and a nonzero exit and makes no setst call, whatever
\* other flags are present.
C3_Original ==
  DeltaTempOnly =>
    /\ AllSetCalls = {}
    /\ pc = "done" => fail = 1 /\ status = EXIT_FAILURE

\* C3 (amended): delta mode with only the temperature delta makes no setst
\* call other than those of toggledaynight, none at all without -t, and ends
\* with the failure flag set and a nonzero exit unless the usage text was
\* asked for with -h before any error.
C3_DeltaTempOnly ==
  DeltaTempOnly =>
    /\ \A k \in AllSetCalls : calls[k].by = "toggle"
    /\ has_t \notin flags => AllSetCalls = {}
    /\ (pc = "done" /\ has_h \notin flags) => fail = 1 /\ status = EXIT_FAILURE
    /\ (pc = "done" /\ has_h \in flags) => shown /\ calls = <<>>

\* C3: deltasct has refused a lone temperature delta after toggledaynight ran.
C3_Witness ==
  /\ DeltaTempOnly /\ pc = "done"
  /\ has_t \in flags /\ has_h \notin flags
  /\ \E k \in SetCalls("toggle") : calls[k].n > 0
  /\ fail = 1 /\ status = EXIT_FAILURE

\* the toggle reads, each followed by the toggle write on the same screen
TogglePairs == {k \in GetCalls("toggle") : k + 1 \in SetCalls("toggle")}

\* C4: toggledaynight decides per screen from that screen's own estimate:
\* above temp_day - TOGGLE_DELTA the night default is written to it, otherwise
\* (the estimate temp_day - TOGGLE_DELTA and the estimate 0 included) the day
\* default.
C4_ToggleThreshold ==
  /\ \A k \in GetCalls("toggle") \ TogglePairs : k = Len(calls)
  /\ \A k \in TogglePairs :
       /\ calls[k + 1].screen = calls[k].screen
       /\ calls[k].ts.temp > temp_day - TOGGLE_DELTA
            => calls[k + 1].ts.temp = temp_night
       /\ calls[k].ts.temp <= temp_day - TOGGLE_DELTA
            => calls[k + 1].ts.temp = temp_day

\* C4: a screen estimated at exactly temp_day - TOGGLE_DELTA got the day
\* default and a screen without signal got it too.
C4_Witness ==
  /\ \E k \in TogglePairs :
       /\ calls[k].ts.temp = temp_day - TOGGLE_DELTA
       /\ calls[k + 1].ts.temp = temp_day
       /\ temp_day # temp_night
  /\ \E k \in TogglePairs : calls[k].ts.temp = 0

\* the run took the branch of main that operates on the screens
Validated == has_h \notin flags /\ screen_arg < nscreen

\* toggledaynight has returned
ToggleDone ==
  /\ has_t \in flags /\ Validated
  /\ pc \in {"select", "printestimate", "regularsct", "regularsct_loop",
             "deltasct", "deltasct_set", "close", "done"}

\* the screens a call other than toggle's has written
Overwritten == {calls[k].screen : k \in AllSetCalls \ SetCalls("toggle")}

AllCrtcs(n) == [k \in 1..n |-> k - 1]

\* C6: getst and setst select the same crtcs for the same screen and crtc
\* argument: the one crtc at position crtc_arg when 0 <= crtc_arg < ncrtc,
\* else every crtc from position 0 to ncrtc-1 once and nothing else (also
\* when there is none); the count a read returns is the number of crtcs it
\* summed.
C6_SameCrtcSelection ==
  \A k \in DOMAIN calls :
    LET n == Len(dpy[calls[k].screen + 1])
    IN  /\ calls[k].crtcs = IF 0 <= crtc_arg /\ crtc_arg < n
                            THEN <<crtc_arg>> ELSE AllCrtcs(n)
        /\ calls[k].n = Len(calls[k].crtcs)

\* C6: in one run a read and a write took crtc 1 alone on a screen with two
\* crtcs, and a read and a write took none on a screen without crtcs.
C6_Witness ==
  /\ \E k \in DOMAIN calls :
       /\ k + 1 \in DOMAIN calls
       /\ calls[k].op = "get" /\ calls[k + 1].op = "set"
       /\ calls[k].crtcs = <<1>> /\ calls[k + 1].crtcs = <<1>>
       /\ Len(dpy[calls[k].screen + 1]) = 2
  /\ \E k \in DOMAIN calls :
       /\ k + 1 \in DOMAIN calls
       /\ calls[k].op = "get" /\ calls[k + 1].op = "set"
       /\ calls[k].crtcs = <<>> /\ calls[k].n = 0
  /\ crtc_arg = 1

\* C7: every usage error (a delta left unset in delta mode, a missing index
\* after -s or -c, an unrecognized argument, a screen index outside
\* 0..nscreen-1) ends with the usage text shown and a nonzero exit.
C7_UsageErrorsSurfaced ==
  (pc = "done" /\ dpy # <<>> /\ fail = 1) => shown /\ status = EXIT_FAILURE

\* C7: what the code does: a run ended with the failure flag set and the
\* usage text never shown.
C7_ErrorWithoutUsage ==
  pc = "done" /\ dpy # <<>> /\ fail = 1 /\ ~shown /\ status = EXIT_FAILURE

\* no temperature argument, no -d and no -t
EstimateOnly == ts.temp = MIN_DELTA /\ has_d \notin flags /\ has_t \notin flags

\* the reads printestimate makes over the screens first..last
EstimateReads(first, last) ==
  [k \in 1..(last - first + 1) |-> [op |-> "get", screen |-> first + k - 1]]

\* the operation and the screen of every call made
CallsMade == [k \in DOMAIN calls |-> [op |-> calls[k].op, screen |-> calls[k].screen]]

\* C8 (as stated): a run with no temperature argument, no -d and no -t makes
\* exactly one read per selected screen (the screen given by -s, else every
\* screen in ascending order) and no setst call.
C8_Original ==
  (EstimateOnly /\ pc = "done") =>
    CallsMade = IF screen_arg >= 0
                THEN EstimateReads(screen_arg, screen_arg)
                ELSE EstimateReads(0, nscreen - 1)

\* C8 (amended): a run with no temperature argument, no -d and no -t never
\* calls setst; when it did not ask for the usage text, had no argument error
\* and its screen index is below nscreen it makes exactly one read per
\* selected screen (the screen given by a non-negative -s, else every screen
\* in ascending order), and otherwise it makes no read at all.
C8_EstimateReadOnly ==
  EstimateOnly =>
    /\ AllSetCalls = {}
    /\ pc = "done" =>
         CallsMade = IF ~Validated THEN <<>>
                     ELSE IF screen_arg >= 0
                     THEN EstimateReads(screen_arg, screen_arg)
                     ELSE EstimateReads(0, nscreen - 1)

\* C8: -s 1 on two screens read screen 1 once and nothing else.
C8_Witness ==
  /\ EstimateOnly /\ pc = "done" /\ Validated
  /\ nscreen = 2 /\ screen_arg = 1
  /\ CallsMade = <<[op |-> "get", screen |-> 1]>>
  /\ calls[1].by = "estimate" /\ calls[1].n > 0

\* size 256, brightness 1.0 and multipliers {1, 1, 1}
Encode256 == ramp.size = 256 /\ ramp.b = BP /\ ramp.sg = GammaOnes

\* the three channels of element k of the ramp being filled
Channels(k) == {ramp.elems[k].red, ramp.elems[k].green, ramp.elems[k].blue}

\* C9 (as stated): with size 256, brightness 1.0 and multipliers {1, 1, 1}
\* the first element of each channel is 0 and the last is 65535 up to the
\* rounding of one unit.
C9_Original ==
  Encode256 =>
    /\ Len(ramp.elems) >= 1 => Channels(1) = {0}
    /\ Len(ramp.elems) = 256 =>
         \A e \in Channels(256) : GAMMA_MULT - 1 <= e /\ e <= GAMMA_MULT

\* C9 (amended): with brightness 1.0 and multipliers {1, 1, 1} element i of
\* each channel is 65535 * i / size rounded half up, so with size 256 the
\* first element is 0 and the last (i = 255) is 65279, not 65535.
C9_EncodeEndpoints ==
  (ramp.b = BP /\ ramp.sg = GammaOnes) =>
    /\ \A k \in 1..Len(ramp.elems) : \A e \in Channels(k) :
         /\ 2 * ramp.size * e <= 2 * GAMMA_MULT * (k - 1) + ramp.size
         /\ 2 * GAMMA_MULT * (k - 1) + ramp.size < 2 * ramp.size * (e + 1)
    /\ Encode256 =>
         /\ Len(ramp.elems) >= 1 => Channels(1) = {0}
         /\ Len(ramp.elems) = 256 => Channels(256) = {65279}

\* C9: the loop has filled all 256 elements of such a ramp.
C9_Witness ==
  Encode256 /\ pc = "setgamma" /\ Len(ramp.elems) = 256 /\ i = 256

\* C10 (as stated): for every pair of defaults, a toggle of a screen read at
\* the day default writes the night default and a toggle of a screen read at
\* the night default writes the day default.
C10_Original ==
  \A k \in TogglePairs :
    /\ calls[k].ts.temp = temp_day => calls[k + 1].ts.temp = temp_night
    /\ calls[k].ts.temp = temp_night => calls[k + 1].ts.temp = temp_day

\* C10 (amended): a toggle of a screen read at the day default writes the
\* night default; a toggle of a screen read at the night default writes the
\* day default when temp_night <= temp_day - TOGGLE_DELTA, and the night
\* default again when temp_night is above that.
C10_ToggleAlternates ==
  \A k \in TogglePairs :
    /\ calls[k].ts.temp = temp_day => calls[k + 1].ts.temp = temp_night
    /\ (calls[k].ts.temp = temp_night /\ temp_night <= temp_day - TOGGLE_DELTA)
         => calls[k + 1].ts.temp = temp_day
    /\ (calls[k].ts.temp = temp_night /\ temp_night > temp_day - TOGGLE_DELTA)
         => calls[k + 1].ts.temp = temp_night

\* C10: one toggle took a screen from the night default to the day default
\* and another from the day default to the night default.
C10_Witness ==
  /\ temp_night <= temp_day - TOGGLE_DELTA
  /\ \E k \in TogglePairs :
       calls[k].ts.temp = temp_night /\ calls[k + 1].ts.temp = temp_day
  /\ \E k \in TogglePairs :
       calls[k].ts.temp = temp_day /\ calls[k + 1].ts.temp = temp_night
====
